---- MODULE Spec2Model ----
(***************************************************************************)
(* Model of app.py of DataConverter: process_sheet (clean, trim, floor to  *)
(* 10 minutes, sum, pad to whole days, derive kW / energy / cumulative     *)
(* energy), build_output_excel (the day blocks and summaries of every      *)
(* worksheet, the Total sheet) and the sheet loop of app().                *)
(*                                                                         *)
(* Instants are whole seconds; day d starts at d * DaySec.  Day 1 stands   *)
(* for 2024-01-01, day 2 for 2024-01-02, and so on.  Floats are exact      *)
(* rationals [n, d] in lowest terms, NaN is 0/0.  A time label "HH:MM" is   *)
(* the tuple of its four digits, ordered as strings are (lexicographic).   *)
(***************************************************************************)
EXTENDS Integers, Sequences, FiniteSets, TLC

\* ------------------------------------------------------------------ bounds
MaxRows == 3

\* ------------------------------------------------------- program constants
TenMin == 600
DaySec == 86400
KiloDiv == 1000
EnergyDiv == 6000

\* ------------------------------------------------------------------ floats
NaN == [n |-> 0, d |-> 0]

IsNa(x) == x.d = 0

Abs(k) == IF k < 0 THEN 0 - k ELSE k

RECURSIVE GCD(_, _)
GCD(a, b) == IF b = 0 THEN a ELSE GCD(b, a % b)

Rat(num, den) ==
    LET g == GCD(Abs(num), den)
    IN  [n |-> num \div g, d |-> den \div g]

ToFloat(k) == [n |-> k, d |-> 1]

FAbs(x) == IF IsNa(x) THEN NaN ELSE [n |-> Abs(x.n), d |-> x.d]

FDiv(x, k) == IF IsNa(x) THEN NaN ELSE Rat(x.n, x.d * k)

FAdd(x, y) ==
    IF IsNa(x) \/ IsNa(y) THEN NaN
    ELSE Rat(x.n * y.d + y.n * x.d, x.d * y.d)

FLess(x, y) == x.n * y.d < y.n * x.d

\* --------------------------------------------------------------- raw sheet
\* A cell of the uploaded sheet: ok says whether pandas can parse it, v is
\* the parsed value (a day number, a second of the day, a reading in W).
Cell(okv, val) == [ok |-> okv, v |-> val]

Row(dd, tt, pp) == [Date |-> Cell(TRUE, dd), Time |-> Cell(TRUE, tt), PSum |-> Cell(TRUE, pp)]

\* Readings on three days, at 00:02:00 (120 s), 00:07:00 (420 s) and
\* 00:10:00 (600 s): on every day a nonzero and a zero reading, in different
\* slots; on day 1 also a positive and a negative reading that share slot
\* 00:00 with each other and not with the third nonzero one
NonZeroRows ==
    { Row(1, 120, 120), Row(1, 420, -20), Row(1, 600, 120),
      Row(2, 420, 120), Row(3, 600, 120) }

ZeroRows == { Row(1, 600, 0), Row(2, 600, 0), Row(3, 420, 0) }

GoodRows == NonZeroRows \cup ZeroRows

\* a row whose date does not parse, a row whose reading does not parse
BadDateRow == [Date |-> Cell(FALSE, 0), Time |-> Cell(TRUE, 420), PSum |-> Cell(TRUE, 120)]

BadPSumRow == [Date |-> Cell(TRUE, 1), Time |-> Cell(TRUE, 420), PSum |-> Cell(FALSE, 0)]

BadRows == { BadDateRow, BadPSumRow }

RawRows == GoodRows \cup BadRows

SheetInputs ==
    UNION { [1..len -> RawRows] : len \in 0..MaxRows }

\* ------------------------------------------------------------ process_sheet
NaT == Cell(FALSE, 0)

\* pd.to_datetime(Date + ' ' + Time, errors="coerce"): an instant, or NaT
to_datetime(row) ==
    IF row.Date.ok /\ row.Time.ok
    THEN Cell(TRUE, row.Date.v * DaySec + row.Time.v)
    ELSE NaT

\* pd.to_numeric(text, errors="coerce"): a number, or NaN
to_numeric(cell) == IF cell.ok THEN ToFloat(cell.v) ELSE NaN

\* A cleaning that rejects the whole sheet as soon as one row fails to parse
dropna_reject_sheet(sheet) ==
    LET parsed == [i \in 1..Len(sheet) |->
                     [idx |-> i - 1,
                      Timestamp |-> to_datetime(sheet[i]),
                      PSum |-> to_numeric(sheet[i].PSum)]]
        kept(r) == r.Timestamp.ok /\ ~IsNa(r.PSum)
    IN  IF \A i \in 1..Len(parsed) : kept(parsed[i])
        THEN [i \in 1..Len(parsed) |->
                [idx |-> parsed[i].idx, Timestamp |-> parsed[i].Timestamp.v,
                 PSum |-> parsed[i].PSum.n]]
        ELSE << >>

\* The frame after steps 1-3: the rows whose timestamp and reading parsed,
\* each under the index label (0-based row number) it had in the sheet.
dropna(sheet) ==
    LET parsed == [i \in 1..Len(sheet) |->
                     [idx |-> i - 1,
                      Timestamp |-> to_datetime(sheet[i]),
                      PSum |-> to_numeric(sheet[i].PSum)]]
        kept(r) == r.Timestamp.ok /\ ~IsNa(r.PSum)
        rows == SelectSeq(parsed, kept)
    IN  [i \in 1..Len(rows) |->
           [idx |-> rows[i].idx, Timestamp |-> rows[i].Timestamp.v, PSum |-> rows[i].PSum.n]]

non_zero_indices(frame) ==
    { frame[i].idx : i \in { j \in 1..Len(frame) : Abs(frame[j].PSum) # 0 } }

SetMin(S) == CHOOSE x \in S : \A y \in S : x <= y

SetMax(S) == CHOOSE x \in S : \A y \in S : y <= x

\* A trim that discards nothing
TrimNothing(frame) == frame

\* A trim that discards only the rows before the first nonzero row
TrimLeadingOnly(frame) ==
    LET nz == non_zero_indices(frame)
        inside(r) == SetMin(nz) <= r.idx
    IN  SelectSeq(frame, inside)

\* df.loc[first_valid_idx:last_valid_idx]: the rows labelled first..last
TrimLeadingTrailingZeros(frame) ==
    LET nz == non_zero_indices(frame)
        inside(r) == SetMin(nz) <= r.idx /\ r.idx <= SetMax(nz)
    IN  SelectSeq(frame, inside)

\* Timestamp.round('10min'): to the nearest boundary instead of down
Round10(t) == ((t + (TenMin \div 2)) \div TenMin) * TenMin

\* Timestamp.floor('10min')
Floor10(t) == t - (t % TenMin)

\* set_index(Timestamp) with the index floored: same rows, same order
set_index_floor(frame) ==
    [i \in 1..Len(frame) |-> [Rounded |-> Floor10(frame[i].Timestamp), PSum |-> frame[i].PSum]]

RECURSIVE SortedSeq(_)
SortedSeq(S) ==
    IF S = {} THEN << >>
    ELSE LET m == SetMin(S) IN <<m>> \o SortedSeq(S \ {m})

\* The sum of the absolute values
RECURSIVE SumSeqAbs(_)
SumSeqAbs(s) == IF s = << >> THEN 0 ELSE Abs(Head(s)) + SumSeqAbs(Tail(s))

RECURSIVE SumSeq(_)
SumSeq(s) == IF s = << >> THEN 0 ELSE Head(s) + SumSeq(Tail(s))

\* groupby(level=0).sum().reset_index(): one row per distinct floored
\* instant, ascending, holding the sum of the readings that map to it
GroupSum(indexed) ==
    LET keys == SortedSeq({ indexed[i].Rounded : i \in 1..Len(indexed) })
        vals(k) == LET here(r) == r.Rounded = k
                       sel == SelectSeq(indexed, here)
                   IN  [i \in 1..Len(sel) |-> sel[i].PSum]
    IN  [i \in 1..Len(keys) |-> [Rounded |-> keys[i], PSumW |-> SumSeq(vals(keys[i]))]]

\* Timestamp.floor('D') and Timestamp.ceil('D')
FloorDay(t) == t - (t % DaySec)

CeilDay(t) == IF t % DaySec = 0 THEN t ELSE FloorDay(t) + DaySec

DateOf(t) == t \div DaySec

\* strftime("%H:%M") as the digits of "HH:MM"
StrfHM(t) ==
    LET s == t % DaySec
        h == s \div 3600
        m == (s % 3600) \div 60
    IN  <<h \div 10, h % 10, m \div 10, m % 10>>

\* pd.date_range(..., inclusive='neither'): without the start instant
date_range_neither(start, end) ==
    [k \in 1..(((end - start) \div TenMin) - 1) |-> start + k * TenMin]

\* pd.date_range(start, end, freq='10min', inclusive='left')
date_range(start, end) ==
    [k \in 1..((end - start) \div TenMin) |-> start + (k - 1) * TenMin]

\* reindex(full_time_index, fill_value=0): 0 where the series has no value
reindex_fill_zero(out, index) ==
    [k \in 1..Len(index) |->
       LET hit == { i \in 1..Len(out) : out[i].Rounded = index[k] }
       IN  [Rounded |-> index[k],
            PSumW |-> IF hit = {} THEN ToFloat(0) ELSE ToFloat(out[CHOOSE i \in hit : TRUE].PSumW)]]

\* Series.reindex(full_time_index): the value at each instant of the index,
\* NaN where the series has none
reindex(out, index) ==
    [k \in 1..Len(index) |->
       LET hit == { i \in 1..Len(out) : out[i].Rounded = index[k] }
       IN  [Rounded |-> index[k],
            PSumW |-> IF hit = {} THEN NaN ELSE ToFloat(out[CHOOSE i \in hit : TRUE].PSumW)]]

\* kW without the absolute value
KwSigned(w) == FDiv(w, KiloDiv)

\* kW = |PSumW| / 1000
KwOf(w) == FDiv(FAbs(w), KiloDiv)

\* Energy (kWh) = |PSumW| / 6000
EnergyOf(w) == FDiv(FAbs(w), EnergyDiv)

RECURSIVE FSum(_)
FSum(s) == IF s = << >> THEN ToFloat(0) ELSE FAdd(Head(s), FSum(Tail(s)))

\* The running sums of rows lo..hi, given the sum reached so far in each
\* day (carry); the carry after the rows is returned with them
RECURSIVE CumSumRange(_, _, _, _)
CumSumRange(rows, lo, hi, carry) ==
    IF lo = hi
    THEN LET r == rows[lo]
             run == IF IsNa(r.Energy) THEN carry[r.Date] ELSE FAdd(carry[r.Date], r.Energy)
         IN  [out |-> <<[r EXCEPT !.Cumulative = IF IsNa(r.Energy) THEN NaN ELSE run]>>,
              carry |-> [carry EXCEPT ![r.Date] = run]]
    ELSE LET mid == (lo + hi) \div 2
             left == CumSumRange(rows, lo, mid, carry)
             right == CumSumRange(rows, mid + 1, hi, left.carry)
         IN  [out |-> left.out \o right.out, carry |-> right.carry]

\* Energy.cumsum().where(notna) over the whole frame, with no restart at a
\* new day
CumSumNoRestart(rows) ==
    LET notna(r) == ~IsNa(r.Energy)
    IN  [i \in 1..Len(rows) |->
           [rows[i] EXCEPT !.Cumulative =
              IF IsNa(rows[i].Energy) THEN NaN
              ELSE LET before == SelectSeq(SubSeq(rows, 1, i), notna)
                   IN  FSum([j \in 1..Len(before) |-> before[j].Energy])]]

\* groupby("Date")[Energy].transform(cumsum().where(notna)): at each row the
\* sum of the non-NaN energies of its day up to and including it, NaN where
\* the row's own energy is NaN
CumSumByDate(rows) ==
    LET dates == { rows[i].Date : i \in 1..Len(rows) }
    IN  IF rows = << >> THEN << >>
        ELSE CumSumRange(rows, 1, Len(rows), [dd \in dates |-> ToFloat(0)]).out

Empty == << >>

\* The body of process_sheet from the groupby on: the returned frame
Resample(indexed) ==
    LET df_out == GroupSum(indexed)
        original_dates == { DateOf(df_out[i].Rounded) : i \in 1..Len(df_out) }
        min_dt == FloorDay(df_out[1].Rounded)
        max_dt_exclusive == CeilDay(df_out[Len(df_out)].Rounded)
        padded == reindex(df_out, date_range(min_dt, max_dt_exclusive))
        present(r) == DateOf(r.Rounded) \in original_dates
        kept == SelectSeq(padded, present)
        cols == [k \in 1..Len(kept) |->
                   [Rounded |-> kept[k].Rounded,
                    PSumW |-> kept[k].PSumW,
                    Date |-> DateOf(kept[k].Rounded),
                    Time |-> StrfHM(kept[k].Rounded),
                    kW |-> KwOf(kept[k].PSumW),
                    Energy |-> EnergyOf(kept[k].PSumW),
                    Cumulative |-> NaN]]
    IN  IF df_out = << >> THEN Empty
        ELSE IF min_dt >= max_dt_exclusive THEN Empty
        ELSE CumSumByDate(cols)

\* process_sheet's locals when it returns: df (the frame after cleaning and,
\* if reached, trimming), df_indexed (its floored copy) and the result
process_sheet(sheet) ==
    LET cleaned == dropna(sheet)
        trimmed == TrimLeadingTrailingZeros(cleaned)
    IN  IF cleaned = << >> \/ non_zero_indices(cleaned) = {}
        THEN [df |-> cleaned, df_indexed |-> << >>, grouped |-> Empty]
        ELSE [df |-> trimmed,
              df_indexed |-> set_index_floor(trimmed),
              grouped |-> Resample(set_index_floor(trimmed))]

\* ------------------------------------------------------- build_output_excel
LexLess(a, b) ==
    \E i \in 1..Len(a) : a[i] < b[i] /\ \A j \in 1..(i - 1) : a[j] = b[j]

TimeBefore(r1, r2) == LexLess(r1.Time, r2.Time)

\* sort_values("Time")
SortByTime(rows) == SortSeq(rows, TimeBefore)

RECURSIVE FMax(_)
FMax(s) ==
    IF s = << >> THEN NaN
    ELSE IF Len(s) = 1 THEN Head(s)
    ELSE LET m == FMax(Tail(s)) IN IF FLess(m, Head(s)) THEN Head(s) ELSE m

\* A mean taken over the 144 slots of a full day, whatever the series holds
FMeanFullDay(s) == IF s = << >> THEN NaN ELSE FDiv(FSum(s), 144)

FMean(s) == IF s = << >> THEN NaN ELSE FDiv(FSum(s), Len(s))

Column(rows, name) == [i \in 1..Len(rows) |-> rows[i][name]]

\* One day block of a worksheet: its first column, the date header, the
\* data rows written from row 3 down, and the four summary rows under them
DayBlock(frame, date, col_start) ==
    LET ofday(r) == r.Date = date
        day_data_full == SortByTime(SelectSeq(frame, ofday))
        active(r) == ~IsNa(r.PSumW)
        day_data_active == SelectSeq(day_data_full, active)
        total_kwh == FSum(Column(day_data_active, "Energy"))
    IN  [col_start |-> col_start,
         date |-> date,
         n_rows |-> Len(day_data_full),
         rows |-> [i \in 1..Len(day_data_full) |->
                     [Time |-> day_data_full[i].Time,
                      W |-> day_data_full[i].PSumW,
                      kW |-> day_data_full[i].kW,
                      Energy |-> day_data_full[i].Energy,
                      Cumulative |-> day_data_full[i].Cumulative]],
         sum_w |-> FSum(Column(day_data_active, "PSumW")),
         mean_w |-> FMean(Column(day_data_active, "PSumW")),
         max_w |-> FMax(Column(day_data_active, "PSumW")),
         sum_kw |-> FSum(Column(day_data_active, "kW")),
         mean_kw |-> FMean(Column(day_data_active, "kW")),
         max_kw |-> FMax(Column(day_data_active, "kW")),
         total_kwh |-> total_kwh,
         avg_kw_24h |-> FDiv(total_kwh, 24)]

\* sorted(..., reverse=True)
SortedDatesDescending(frame) ==
    LET asc == SortedSeq({ frame[i].Date : i \in 1..Len(frame) })
    IN  [i \in 1..Len(asc) |-> asc[Len(asc) + 1 - i]]

\* dates = sorted(df["Date"].unique())
SortedDates(frame) == SortedSeq({ frame[i].Date : i \in 1..Len(frame) })

\* The worksheet of one processed sheet: a block per date, six columns each
Worksheet(name, frame) ==
    LET dates == SortedDates(frame)
        blocks == [b \in 1..Len(dates) |-> DayBlock(frame, dates[b], 1 + 6 * (b - 1))]
    IN  [title |-> name,
         blocks |-> blocks,
         daily_summary_list |->
            [b \in 1..Len(dates) |->
               [date |-> blocks[b].date,
                max_kw |-> blocks[b].max_kw,
                avg_kw |-> blocks[b].avg_kw_24h,
                total_kwh |-> blocks[b].total_kwh]]]

build_output_excel(sheets_dict) ==
    [s \in 1..Len(sheets_dict) |-> Worksheet(sheets_dict[s].name, sheets_dict[s].frame)]

\* value if not pd.isna(value) else 0
NanToZero(x) == IF IsNa(x) THEN ToFloat(0) ELSE x

\* A Total Load value that is the largest of the sheets' values of the date
DailyMax(cells, name) == FMax(Column(cells, name))

\* daily_max_kw_sum, daily_avg_kw_sum, daily_total_kwh_sum: the values the
\* sheets wrote in the row of a date, added up from 0
DailySum(cells, name) == FSum(Column(cells, name))

\* The "Total" sheet built from the worksheets: a row per date found in any
\* sheet, ascending, with the three values of every sheet (0 where the sheet
\* lacks the date or the value is NaN) and their sums over the sheets; then
\* the Total row, whose per-sheet cells are the column sums Excel computes
\* from the =SUM formulas and whose Total Load cells are the sums of the rows
TotalSheet(sheets) ==
    LET sorted_dates ==
            SortedSeq(UNION { { sheets[s].blocks[b].date : b \in 1..Len(sheets[s].blocks) } :
                                s \in 1..Len(sheets) })
        data(s, date) ==
            LET hit == { b \in 1..Len(sheets[s].blocks) : sheets[s].blocks[b].date = date }
                blk == sheets[s].blocks[CHOOSE b \in hit : TRUE]
            IN  IF hit = {}
                THEN [max_kw |-> ToFloat(0), avg_kw |-> ToFloat(0), total_kwh |-> ToFloat(0)]
                ELSE [max_kw |-> NanToZero(blk.max_kw),
                      avg_kw |-> NanToZero(blk.avg_kw_24h),
                      total_kwh |-> NanToZero(blk.total_kwh)]
        rows == [r \in 1..Len(sorted_dates) |->
                   LET cells == [s \in 1..Len(sheets) |-> data(s, sorted_dates[r])]
                   IN  [date |-> sorted_dates[r],
                        cells |-> cells,
                        max_total_kw |-> DailySum(cells, "max_kw"),
                        avg_total_kw |-> DailySum(cells, "avg_kw"),
                        total_total_kwh |-> DailySum(cells, "total_kwh")]]
    IN  [sheet_names_list |-> [s \in 1..Len(sheets) |-> sheets[s].title],
         rows |-> rows,
         total_row |->
            [cells |-> [s \in 1..Len(sheets) |->
                          [max_kw |-> FSum([r \in 1..Len(rows) |-> rows[r].cells[s].max_kw]),
                           avg_kw |-> FSum([r \in 1..Len(rows) |-> rows[r].cells[s].avg_kw]),
                           total_kwh |-> FSum([r \in 1..Len(rows) |-> rows[r].cells[s].total_kwh])]],
             total_max_kw |-> FSum(Column(rows, "max_total_kw")),
             total_avg_kw |-> FSum(Column(rows, "avg_total_kw")),
             total_total_kwh |-> FSum(Column(rows, "total_total_kwh"))]]

NoSheet == << >>

\* ---------------------------------------------------------------------- app
\* xls: the uploaded sheets; k: the loop's position; raw, df, df_indexed,
\* grouped: the argument, locals and result of the latest process_sheet call
\* (returned: there was one); result_sheets, wb, ui: app's dict, the workbook
\* built from it (its data sheets), ws_total its "Total" sheet, and the
\* messages shown
VARIABLES xls, k, raw, returned, df, df_indexed, grouped, result_sheets, ui, wb,
          ws_total, pc

vars == <<xls, k, raw, returned, df, df_indexed, grouped, result_sheets, ui, wb,
          ws_total, pc>>

\* An uploaded sheet: readable says whether pd.read_excel succeeds, the
\* has_ flags whether a Date/Time and a PSum column are found
Sheet(name, readable, has_dt, has_psum, rows) ==
    [name |-> name, readable |-> readable, has_dt |-> has_dt,
     has_psum |-> has_psum, rows |-> rows]

Uploads ==
    { <<Sheet("Sheet1", TRUE, TRUE, TRUE, rows)>> : rows \in SheetInputs }
    \cup { <<Sheet("Sheet1", FALSE, TRUE, TRUE, << >>)>>,
           <<Sheet("Sheet1", TRUE, FALSE, TRUE, << >>)>>,
           <<Sheet("Sheet1", TRUE, TRUE, FALSE, << >>)>> }

Init ==
    /\ xls \in Uploads
    /\ k = 1
    /\ raw = << >>
    /\ returned = FALSE
    /\ df = << >>
    /\ df_indexed = << >>
    /\ grouped = Empty
    /\ result_sheets = << >>
    /\ ui = << >>
    /\ wb = << >>
    /\ ws_total = NoSheet
    /\ pc = "loop"

\* One iteration of `for sheet_name in xls.sheet_names`
AppProcessSheet ==
    /\ pc = "loop"
    /\ k <= Len(xls)
    /\ LET sheet == xls[k]
           res == process_sheet(sheet.rows)
       IN  IF ~sheet.readable
           THEN /\ ui' = Append(ui, [sheet |-> sheet.name, msg |-> "error_reading"])
                /\ UNCHANGED <<raw, returned, df, df_indexed, grouped, result_sheets>>
           ELSE IF ~sheet.has_dt
           THEN /\ ui' = Append(ui, [sheet |-> sheet.name, msg |-> "error_no_date_time"])
                /\ UNCHANGED <<raw, returned, df, df_indexed, grouped, result_sheets>>
           ELSE IF ~sheet.has_psum
           THEN /\ ui' = Append(ui, [sheet |-> sheet.name, msg |-> "error_no_psum"])
                /\ UNCHANGED <<raw, returned, df, df_indexed, grouped, result_sheets>>
           ELSE /\ raw' = sheet.rows
                /\ returned' = TRUE
                /\ df' = res.df
                /\ df_indexed' = res.df_indexed
                /\ grouped' = res.grouped
                /\ IF res.grouped # Empty
                   THEN /\ result_sheets' =
                             Append(result_sheets, [name |-> sheet.name, frame |-> res.grouped])
                        /\ ui' = Append(ui, [sheet |-> sheet.name, msg |-> "success"])
                   ELSE /\ result_sheets' = result_sheets
                        /\ ui' = Append(ui, [sheet |-> sheet.name, msg |-> "warning_no_usable_data"])
    /\ k' = k + 1
    /\ UNCHANGED <<xls, wb, ws_total, pc>>

\* An ending that builds and offers the workbook whatever the loop collected
AppFinishAlwaysBuild ==
    /\ pc = "loop"
    /\ k > Len(xls)
    /\ wb' = build_output_excel(result_sheets)
    /\ ws_total' = TotalSheet(build_output_excel(result_sheets))
    /\ ui' = Append(ui, [sheet |-> "", msg |-> "download"])
    /\ pc' = "done"
    /\ UNCHANGED <<xls, k, raw, returned, df, df_indexed, grouped, result_sheets>>

\* After the loop: build the workbook and offer it, or report the failure
AppFinish ==
    /\ pc = "loop"
    /\ k > Len(xls)
    /\ IF result_sheets # << >>
       THEN /\ wb' = build_output_excel(result_sheets)
            /\ ws_total' = TotalSheet(build_output_excel(result_sheets))
            /\ ui' = Append(ui, [sheet |-> "", msg |-> "download"])
       ELSE /\ wb' = wb
            /\ ws_total' = ws_total
            /\ ui' = Append(ui, [sheet |-> "", msg |-> "error_no_data"])
    /\ pc' = "done"
    /\ UNCHANGED <<xls, k, raw, returned, df, df_indexed, grouped, result_sheets>>

Next == AppProcessSheet \/ AppFinish

Spec == Init /\ [][Next]_vars

\* ------------------------------------------------------- several sheets
\* A workbook of up to MaxSheets sheets, named by position as xls.sheet_names
\* lists them. Each sheet is unreadable, or lacks the Date/Time columns, or
\* lacks the PSum column, or holds one of these row lists: a reading on day 1;
\* readings on days 1 and 2; a reading on day 3 between two unparsable rows;
\* a single zero reading; a single unparsable row; no row at all; a single
\* reading in the first slot of its day
MaxSheets == 2

SheetNames == <<"Sheet1", "Sheet2", "Sheet3", "Sheet4">>

AppRowInputs ==
    { <<Row(1, 600, 120)>>,
      <<Row(1, 420, -20), Row(2, 600, 120)>>,
      <<BadDateRow, Row(3, 600, 120), BadPSumRow>>,
      <<Row(1, 600, 0)>>,
      <<BadDateRow>>,
      << >>,
      <<Row(2, 420, 120)>> }

AppSheetKinds ==
    { Sheet("", TRUE, TRUE, TRUE, rows) : rows \in AppRowInputs }
    \cup { Sheet("", FALSE, TRUE, TRUE, << >>),
           Sheet("", TRUE, FALSE, TRUE, << >>),
           Sheet("", TRUE, TRUE, FALSE, << >>) }

AppUploads ==
    UNION { { [i \in 1..n |-> [f[i] EXCEPT !.name = SheetNames[i]]] :
                f \in [1..n -> AppSheetKinds] } : n \in 1..MaxSheets }

InitApp ==
    /\ xls \in AppUploads
    /\ k = 1
    /\ raw = << >>
    /\ returned = FALSE
    /\ df = << >>
    /\ df_indexed = << >>
    /\ grouped = Empty
    /\ result_sheets = << >>
    /\ ui = << >>
    /\ wb = << >>
    /\ ws_total = NoSheet
    /\ pc = "loop"

SpecApp == InitApp /\ [][Next]_vars

\* ------------------------------------------------------------------ claims
\* The samples process_sheet retained: parsed, and not trimmed away
Retained ==
    IF \E i \in 1..Len(df) : df[i].PSum # 0 THEN df ELSE << >>

\* The retained samples whose instant lies in the 10-minute window from b
SamplesIn(b) ==
    { i \in 1..Len(Retained) :
        b <= Retained[i].Timestamp /\ Retained[i].Timestamp < b + TenMin }

RECURSIVE SignedSum(_)
SignedSum(I) ==
    IF I = {} THEN 0
    ELSE LET i == CHOOSE j \in I : TRUE
         IN  Retained[i].PSum + SignedSum(I \ {i})

OutputDates == { grouped[i].Date : i \in 1..Len(grouped) }

\* The label of the n-th slot of a day (n = 0 for 00:00, 143 for 23:50)
SlotLabel(n) == <<(n \div 6) \div 10, (n \div 6) % 10, n % 6, 0>>

\* C1: the bucket of every retained sample is the largest 10-minute-aligned
\* instant not after it: aligned, at or before the sample, and less than ten
\* minutes before it; a sample on a boundary is its own bucket.
C1_FloorBucket ==
    returned =>
        /\ Len(df_indexed) = Len(Retained)
        /\ \A i \in 1..Len(df_indexed) :
              LET b == df_indexed[i].Rounded
                  t == Retained[i].Timestamp
              IN  /\ b % TenMin = 0
                  /\ b <= t
                  /\ t < b + TenMin
                  /\ (t % TenMin = 0 => b = t)

\* C1 witness: a returned frame whose retained samples include one on a
\* 10-minute boundary and one seven minutes into a window
C1_Witness ==
    /\ returned
    /\ grouped # Empty
    /\ \E i \in 1..Len(Retained) : Retained[i].Timestamp % TenMin = 0
    /\ \E i \in 1..Len(Retained) : Retained[i].Timestamp % TenMin = 420

\* C2: the output has at most one row per (day, slot), and a slot that
\* received retained samples holds their signed arithmetic sum.
C2_SignedSum ==
    returned =>
        /\ Cardinality({ <<grouped[i].Date, grouped[i].Time>> : i \in 1..Len(grouped) })
             = Len(grouped)
        /\ \A i \in 1..Len(grouped) :
              LET I == SamplesIn(grouped[i].Rounded)
              IN  I # {} => grouped[i].PSumW = [n |-> SignedSum(I), d |-> 1]

\* C2 witness: a slot that received a positive and a negative sample
C2_Witness ==
    /\ returned
    /\ \E i \in 1..Len(grouped) :
          LET I == SamplesIn(grouped[i].Rounded)
          IN  /\ \E a \in I : Retained[a].PSum > 0
              /\ \E b \in I : Retained[b].PSum < 0
              /\ grouped[i].PSumW = [n |-> 100, d |-> 1]

\* C3: every day of the output has exactly 144 rows labelled 00:00, 00:10,
\* ..., 23:50, each once, and every block of the workbook holds the 144 rows
\* of its day in ascending time order.
C3_FullDay ==
    /\ \A dd \in OutputDates :
          LET rows == { i \in 1..Len(grouped) : grouped[i].Date = dd }
          IN  /\ Cardinality(rows) = 144
              /\ { grouped[i].Time : i \in rows } = { SlotLabel(n) : n \in 0..143 }
    /\ \A s \in 1..Len(wb) : \A b \in 1..Len(wb[s].blocks) :
          LET blk == wb[s].blocks[b]
          IN  /\ blk.n_rows = 144
              /\ Len(blk.rows) = 144
              /\ \A i \in 1..144 : blk.rows[i].Time = SlotLabel(i - 1)
              /\ \E fr \in 1..Len(result_sheets) :
                    LET frame == result_sheets[fr].frame
                        ofday == { j \in 1..Len(frame) : frame[j].Date = blk.date }
                    IN  /\ result_sheets[fr].name = wb[s].title
                        /\ { <<blk.rows[i].Time, blk.rows[i].W>> : i \in 1..144 }
                             = { <<frame[j].Time, frame[j].PSumW>> : j \in ofday }

\* C3 witness: a workbook with a day that has a single observed slot
C3_Witness ==
    /\ pc = "done"
    /\ \E s \in 1..Len(wb) : \E b \in 1..Len(wb[s].blocks) :
          Cardinality({ i \in 1..Len(wb[s].blocks[b].rows) :
                          ~IsNa(wb[s].blocks[b].rows[i].W) }) = 1

\* C4: for the samples (2024-01-01 00:02, 120) and (2024-01-01 00:07, -20)
\* the output is the day 2024-01-01 with 100 W and 0.1 kW in slot 00:00 and
\* every later slot of the day blank.
C4_Scenario ==
    (returned /\ raw = <<Row(1, 120, 120), Row(1, 420, -20)>>) =>
        /\ OutputDates = {1}
        /\ \E i \in 1..Len(grouped) : grouped[i].Time = SlotLabel(0)
        /\ \A i \in 1..Len(grouped) :
              IF grouped[i].Time = SlotLabel(0)
              THEN /\ grouped[i].PSumW = [n |-> 100, d |-> 1]
                   /\ grouped[i].kW = [n |-> 1, d |-> 10]
              ELSE /\ IsNa(grouped[i].PSumW)
                   /\ IsNa(grouped[i].kW)

\* C5: the days of the output are exactly the days on which a retained
\* sample falls.
C5_DaysIffSampled ==
    returned =>
        OutputDates = { DateOf(Retained[i].Timestamp) : i \in 1..Len(Retained) }

\* C6: an output slot whose retained samples sum to 0 holds 0 W, 0 kW and
\* 0 kWh and a cumulative energy that is not blank, while a slot without a
\* retained sample is blank in all four columns: padding never writes a 0.
C6_ZeroIsNotAbsent ==
    returned =>
        \A i \in 1..Len(grouped) :
           LET I == SamplesIn(grouped[i].Rounded)
               r == grouped[i]
           IN  /\ I = {} =>
                     IsNa(r.PSumW) /\ IsNa(r.kW) /\ IsNa(r.Energy) /\ IsNa(r.Cumulative)
               /\ (I # {} /\ SignedSum(I) = 0) =>
                     /\ r.PSumW = [n |-> 0, d |-> 1]
                     /\ r.kW = [n |-> 0, d |-> 1]
                     /\ r.Energy = [n |-> 0, d |-> 1]
                     /\ ~IsNa(r.Cumulative)

\* C6 witness: an output with a slot whose retained samples sum to 0 next to
\* a slot of the same day that no sample reached
C6_Witness ==
    /\ returned
    /\ \E i, j \in 1..Len(grouped) :
          /\ grouped[i].Date = grouped[j].Date
          /\ SamplesIn(grouped[i].Rounded) # {}
          /\ SignedSum(SamplesIn(grouped[i].Rounded)) = 0
          /\ SamplesIn(grouped[j].Rounded) = {}

\* The samples that parsed, before any trimming, under their sheet labels
Parsed == dropna(raw)

\* The labels of the parsed rows with a nonzero reading
NonZeroLabels == { Parsed[i].idx : i \in { j \in 1..Len(Parsed) : Parsed[j].PSum # 0 } }

\* The parsed rows between the first and the last nonzero row of the sheet
InsideActive ==
    { i \in 1..Len(Parsed) :
        \E a, b \in NonZeroLabels : a <= Parsed[i].idx /\ Parsed[i].idx <= b }

RowsOfDay(dd) == { i \in 1..Len(grouped) : grouped[i].Date = dd }

NonZeroSlots(dd) ==
    { i \in RowsOfDay(dd) : ~IsNa(grouped[i].PSumW) /\ grouped[i].PSumW.n # 0 }

\* C7 as stated: within every output day, the slots before the day's first
\* nonzero slot and after its last nonzero slot are blank.
C7_PerDayTrim ==
    returned =>
        \A dd \in OutputDates : \A i \in RowsOfDay(dd) :
           (NonZeroSlots(dd) # {} /\
              (\/ \A j \in NonZeroSlots(dd) : i < j
               \/ \A j \in NonZeroSlots(dd) : j < i))
           => IsNa(grouped[i].PSumW)

\* C7 amended: trimming is done once per sheet on the parsed rows in sheet
\* order: exactly the rows from the first to the last nonzero row are
\* retained, unchanged; an output slot reached only by discarded rows is
\* blank, and a slot reached by a retained row holds the sum of its retained
\* rows, zeros included.
C7_SheetTrim ==
    returned =>
        LET parsed == Parsed
            inside == InsideActive
            kept == { parsed[j].Timestamp : j \in inside }
        IN  /\ { Retained[i] : i \in 1..Len(Retained) } = { parsed[i] : i \in inside }
            /\ Len(Retained) = Cardinality(inside)
            /\ \A i \in 1..Len(grouped) :
                  LET b == grouped[i].Rounded
                      here == { t \in kept : b <= t /\ t < b + TenMin }
                  IN  /\ here = {} => IsNa(grouped[i].PSumW)
                      /\ here # {} =>
                            /\ ~IsNa(grouped[i].PSumW)
                            /\ grouped[i].PSumW.n = SignedSum(SamplesIn(b))

\* C7 witness: a zero-valued row was trimmed away and its slot is a blank
\* row of the output
C7_Witness ==
    /\ returned
    /\ \E j \in 1..Len(Parsed) :
          /\ j \notin InsideActive
          /\ \E i \in 1..Len(grouped) :
                /\ grouped[i].Rounded <= Parsed[j].Timestamp
                /\ Parsed[j].Timestamp < grouped[i].Rounded + TenMin
                /\ IsNa(grouped[i].PSumW)

\* The days whose parsed samples are all zero
AllZeroDays ==
    { dd \in { DateOf(Parsed[i].Timestamp) : i \in 1..Len(Parsed) } :
        \A i \in 1..Len(Parsed) : DateOf(Parsed[i].Timestamp) = dd => Parsed[i].PSum = 0 }

\* C8 as stated: a day whose samples are all zero is left out of the output
\* or has only blank slots; it never shows a 0.
C8_AllZeroDayBlank ==
    returned =>
        \A dd \in AllZeroDays :
           \/ dd \notin OutputDates
           \/ \A i \in RowsOfDay(dd) : IsNa(grouped[i].PSumW)

\* C8 amended: an all-zero day none of whose rows lies between the first and
\* the last nonzero row of the sheet is left out of the output; an all-zero
\* day with a row between them is never blanked: wherever it is in the
\* output, the slots of those rows hold the aggregate 0.
C8_ZeroDayByPosition ==
    returned =>
        \A dd \in AllZeroDays :
           LET inside == { j \in InsideActive : DateOf(Parsed[j].Timestamp) = dd }
           IN  /\ inside = {} => dd \notin OutputDates
               /\ (inside # {} /\ dd \in OutputDates) =>
                     \A j \in inside :
                        \E i \in RowsOfDay(dd) :
                           /\ grouped[i].Rounded <= Parsed[j].Timestamp
                           /\ Parsed[j].Timestamp < grouped[i].Rounded + TenMin
                           /\ grouped[i].PSumW = [n |-> 0, d |-> 1]

\* C8 witness: an all-zero day between two days with nonzero readings is in
\* the output
C8_Witness ==
    /\ returned
    /\ \E dd \in AllZeroDays :
          /\ dd \in OutputDates
          /\ \E d1, d2 \in OutputDates : d1 < dd /\ dd < d2

\* C9: in every output row and every row written to a worksheet, kW is blank
\* exactly when the raw aggregate is, and otherwise 1000 kW is the absolute
\* value of the sum of the slot's retained samples.
C9_KwIsAbsOfSum ==
    returned =>
        /\ \A i \in 1..Len(grouped) :
              LET r == grouped[i]
              IN  /\ IsNa(r.kW) <=> IsNa(r.PSumW)
                  /\ ~IsNa(r.PSumW) =>
                        r.kW.n * 1000 = Abs(SignedSum(SamplesIn(r.Rounded))) * r.kW.d
        /\ \A s \in 1..Len(wb) : \A b \in 1..Len(wb[s].blocks) :
              \A i \in 1..Len(wb[s].blocks[b].rows) :
                 LET c == wb[s].blocks[b].rows[i]
                 IN  /\ IsNa(c.kW) <=> IsNa(c.W)
                     /\ ~IsNa(c.W) => c.kW.n * 1000 * c.W.d = Abs(c.W.n) * c.kW.d

\* C9 witness: a worksheet row with a negative aggregate, and a slot whose
\* samples have both signs
C9_Witness ==
    /\ pc = "done"
    /\ \E s \in 1..Len(wb) : \E b \in 1..Len(wb[s].blocks) :
          \E i \in 1..Len(wb[s].blocks[b].rows) :
             /\ ~IsNa(wb[s].blocks[b].rows[i].W)
             /\ wb[s].blocks[b].rows[i].W.n < 0

\* C10: the blocks of a worksheet stand at columns 1, 7, 13, ..., one per
\* date of the sheet's frame, in strictly ascending date order.
C10_BlocksAscending ==
    \A s \in 1..Len(wb) :
       LET blocks == wb[s].blocks
       IN  /\ \A b \in 1..Len(blocks) : blocks[b].col_start = 1 + 6 * (b - 1)
           /\ \A b1, b2 \in 1..Len(blocks) : b1 < b2 => blocks[b1].date < blocks[b2].date
           /\ \E fr \in 1..Len(result_sheets) :
                 /\ result_sheets[fr].name = wb[s].title
                 /\ { blocks[b].date : b \in 1..Len(blocks) }
                      = { result_sheets[fr].frame[i].Date :
                            i \in 1..Len(result_sheets[fr].frame) }

\* C10 witness: a worksheet of two or more blocks built from rows whose
\* dates come in descending order in the sheet
C10_Witness ==
    /\ pc = "done"
    /\ \E s \in 1..Len(wb) : Len(wb[s].blocks) >= 2
    /\ \E i, j \in 1..Len(Retained) :
          i < j /\ DateOf(Retained[i].Timestamp) > DateOf(Retained[j].Timestamp)

\* A sheet the loop hands to process_sheet: read, with its columns found
Usable(sheet) == sheet.readable /\ sheet.has_dt /\ sheet.has_psum

\* The rows of a sheet whose date, time and reading all parse
ParsableRows(rows) ==
    LET good(r) == r.Date.ok /\ r.Time.ok /\ r.PSum.ok
    IN  SelectSeq(rows, good)

\* The sheets among the first n of the workbook that give a non-empty table
\* when only their parsable rows are aggregated, with that table, in order
ExpectedResults(n) ==
    LET tables == [i \in 1..n |-> process_sheet(ParsableRows(xls[i].rows)).grouped]
        visited == [i \in 1..n |-> [sheet |-> xls[i], table |-> tables[i]]]
        yields(v) == Usable(v.sheet) /\ v.table # Empty
        hits == SelectSeq(visited, yields)
    IN  [i \in 1..Len(hits) |-> [name |-> hits[i].sheet.name, frame |-> hits[i].table]]

\* C11: a sheet that cannot be read, lacks a column, holds unparsable rows or
\* yields no usable data does not end the run: every sheet gets its turn and
\* its message, the run finishes only after the last sheet, and result_sheets
\* holds, in input order, exactly the usable sheets whose table is non-empty,
\* each with the table aggregated from its parsable rows alone.
C11_BadSheetDoesNotAbort ==
    /\ k - 1 <= Len(xls)
    /\ \A i \in 1..(k - 1) : ui[i].sheet = xls[i].name
    /\ pc = "loop" => Len(ui) = k - 1
    /\ pc = "done" => k - 1 = Len(xls) /\ Len(ui) = Len(xls) + 1
    /\ result_sheets = ExpectedResults(k - 1)

\* C11 witness: a finished run over two sheets, the first of them refused or
\* empty-handed, the second with unparsable rows around a good one and kept
C11_Witness ==
    /\ pc = "done"
    /\ Len(xls) = 2
    /\ ~Usable(xls[1]) \/ process_sheet(xls[1].rows).grouped = Empty
    /\ Usable(xls[2])
    /\ \E i \in 1..Len(xls[2].rows) : ~xls[2].rows[i].Date.ok
    /\ \E i \in 1..Len(xls[2].rows) : ~xls[2].rows[i].PSum.ok
    /\ Len(result_sheets) = 1
    /\ result_sheets[1].name = xls[2].name

\* No row of the sheet survives cleaning, or every surviving reading is zero
NoUsableData(rows) ==
    LET clean == dropna(rows)
    IN  \A j \in 1..Len(clean) : clean[j].PSum = 0

\* C12: a sheet of which no row survives cleaning, or whose surviving
\* readings are all zero, gives an empty table; app() answers it with the
\* "no usable data" warning and keeps it out of result_sheets, so no empty
\* table reaches build_output_excel; the download is offered exactly when
\* some sheet gave a non-empty table, and the "No data could be processed"
\* error is shown otherwise.
C12_EmptyTableHandled ==
    LET names == { result_sheets[i].name : i \in 1..Len(result_sheets) }
        some_table == \E i \in 1..Len(xls) :
                         Usable(xls[i]) /\ process_sheet(xls[i].rows).grouped # Empty
    IN  /\ returned /\ NoUsableData(raw) => grouped = Empty
        /\ \A i \in 1..(k - 1) :
              Usable(xls[i]) /\ NoUsableData(xls[i].rows) =>
                 /\ ui[i].msg = "warning_no_usable_data"
                 /\ xls[i].name \notin names
        /\ \A i \in 1..Len(result_sheets) : result_sheets[i].frame # Empty
        /\ pc = "done" =>
              /\ ui[Len(ui)].msg = (IF some_table THEN "download" ELSE "error_no_data")
              /\ some_table =>
                    /\ Len(wb) = Len(result_sheets)
                    /\ \A s \in 1..Len(wb) : Len(wb[s].blocks) >= 1
              /\ ~some_table => wb = << >> /\ ws_total = NoSheet

\* C12 witness: a finished run over a sheet holding only a zero reading and a
\* sheet with data: the first was warned about, the second alone is in the
\* workbook offered for download
C12_Witness ==
    /\ pc = "done"
    /\ Len(xls) = 2
    /\ Usable(xls[1])
    /\ xls[1].rows # << >>
    /\ dropna(xls[1].rows) # << >>
    /\ NoUsableData(xls[1].rows)
    /\ ui[1].msg = "warning_no_usable_data"
    /\ ui[2].msg = "success"
    /\ ui[3].msg = "download"
    /\ Len(wb) = 1
    /\ wb[1].title = xls[2].name

\* The rows of a day block whose slot is not absent
ActiveRows(blk) ==
    LET active(r) == ~IsNa(r.W)
    IN  SelectSeq(blk.rows, active)

\* Total, Avg and Max of W and of kW and the total kWh of a block are the
\* sum, the sum divided by the number of non-absent slots, and the maximum,
\* all taken over the block's non-absent slots
ActiveSlotStats(blk) ==
    LET act == ActiveRows(blk)
        n == Len(act)
        IsMaxOf(m, name) ==
            /\ \E i \in 1..n : act[i][name] = m
            /\ \A i \in 1..n : ~FLess(m, act[i][name])
    IN  /\ n >= 1
        /\ blk.sum_w = FSum(Column(act, "W"))
        /\ blk.sum_kw = FSum(Column(act, "kW"))
        /\ blk.total_kwh = FSum(Column(act, "Energy"))
        /\ blk.mean_w = FDiv(blk.sum_w, n)
        /\ blk.mean_kw = FDiv(blk.sum_kw, n)
        /\ IsMaxOf(blk.max_w, "W")
        /\ IsMaxOf(blk.max_kw, "kW")

\* C13 as stated: every summary value of a day, the 24h average kW among
\* them, comes from the non-absent slots alone, each average being its total
\* divided by the number of non-absent slots.
C13_AllOverActiveSlots ==
    \A s \in 1..Len(wb) : \A b \in 1..Len(wb[s].blocks) :
       LET blk == wb[s].blocks[b]
       IN  /\ ActiveSlotStats(blk)
           /\ blk.avg_kw_24h = FDiv(blk.sum_kw, Len(ActiveRows(blk)))

\* C13: Total, Avg and Max of W and of kW and the total kWh of a day are
\* computed over the day's non-absent slots alone (sum, sum divided by the
\* number of non-absent slots, maximum); the 24h average kW is the total kWh
\* divided by 24, which is the kW total of the non-absent slots divided by
\* the 144 slots of the day, however many of them are absent.
C13_ActiveStatsAnd24hAverage ==
    \A s \in 1..Len(wb) : \A b \in 1..Len(wb[s].blocks) :
       LET blk == wb[s].blocks[b]
       IN  /\ ActiveSlotStats(blk)
           /\ blk.avg_kw_24h = FDiv(blk.total_kwh, 24)
           /\ blk.avg_kw_24h = FDiv(blk.sum_kw, 144)

\* C13 witness: a written block with absent slots and two non-absent slots
\* of different power
C13_Witness ==
    /\ pc = "done"
    /\ \E s \in 1..Len(wb) : \E b \in 1..Len(wb[s].blocks) :
          LET act == ActiveRows(wb[s].blocks[b])
          IN  /\ Len(act) = 2
              /\ Len(wb[s].blocks[b].rows) = 144
              /\ act[1].kW # act[2].kW
              /\ ~IsNa(wb[s].blocks[b].mean_kw)

\* The number of non-absent slots the table of processed sheet s has on a date
ObservedSlots(s, date) ==
    LET frame == result_sheets[s].frame
    IN  Cardinality({ i \in 1..Len(frame) :
                        frame[i].Date = date /\ ~IsNa(frame[i].PSumW) })

\* C14: no summary value is the literal 0 for a sheet and date without a
\* non-absent slot: not in the summary rows of a day block, and not in the
\* sheet's cells of that date's row of the Total sheet.
C14_NoZeroForUnobserved ==
    pc = "done" /\ wb # << >> =>
       /\ \A s \in 1..Len(wb) : \A b \in 1..Len(wb[s].blocks) :
             LET blk == wb[s].blocks[b]
             IN  ObservedSlots(s, blk.date) = 0 =>
                    /\ blk.max_kw # ToFloat(0)
                    /\ blk.avg_kw_24h # ToFloat(0)
                    /\ blk.total_kwh # ToFloat(0)
       /\ \A r \in 1..Len(ws_total.rows) : \A s \in 1..Len(wb) :
             LET cell == ws_total.rows[r].cells[s]
             IN  ObservedSlots(s, ws_total.rows[r].date) = 0 =>
                    /\ cell.max_kw # ToFloat(0)
                    /\ cell.avg_kw # ToFloat(0)
                    /\ cell.total_kwh # ToFloat(0)

\* The sum of the values that f gives on the indices in I
RECURSIVE SumOver(_, _)
SumOver(f, I) ==
    IF I = {} THEN ToFloat(0)
    ELSE LET i == CHOOSE j \in I : TRUE
         IN  FAdd(f[i], SumOver(f, I \ {i}))

\* C15: the Total sheet has one row per date found in any processed sheet,
\* in ascending date order, and one column group per processed sheet, in
\* input order; the Total Load values of a row are the sums over the sheets
\* of the values written in that row, and the Total Load cells of the Total
\* row are the sums of the rows' Total Load values.
C15_TotalSheetSums ==
    pc = "done" /\ wb # << >> =>
       LET rows == ws_total.rows
           R == 1..Len(rows)
           S == 1..Len(result_sheets)
           processed == { i \in 1..Len(xls) :
                            \E s \in S : result_sheets[s].name = xls[i].name }
           value(r, name) == [s \in S |-> rows[r].cells[s][name]]
           load(name) == [r \in R |-> rows[r][name]]
       IN  /\ { rows[r].date : r \in R }
                = UNION { { result_sheets[s].frame[i].Date :
                              i \in 1..Len(result_sheets[s].frame) } : s \in S }
           /\ \A r1, r2 \in R : r1 < r2 => rows[r1].date < rows[r2].date
           /\ Len(ws_total.sheet_names_list) = Cardinality(processed)
           /\ \A s \in S :
                 /\ ws_total.sheet_names_list[s] = result_sheets[s].name
                 /\ \E i \in processed :
                       /\ xls[i].name = ws_total.sheet_names_list[s]
                       /\ Cardinality({ j \in processed : j <= i }) = s
           /\ \A r \in R :
                 /\ DOMAIN rows[r].cells = S
                 /\ rows[r].max_total_kw = SumOver(value(r, "max_kw"), S)
                 /\ rows[r].avg_total_kw = SumOver(value(r, "avg_kw"), S)
                 /\ rows[r].total_total_kwh = SumOver(value(r, "total_kwh"), S)
           /\ ws_total.total_row.total_max_kw = SumOver(load("max_total_kw"), R)
           /\ ws_total.total_row.total_avg_kw = SumOver(load("avg_total_kw"), R)
           /\ ws_total.total_row.total_total_kwh = SumOver(load("total_total_kwh"), R)

\* C15 witness: a Total sheet over two processed sheets and two dates, one of
\* the dates found in both sheets and the other in one sheet only, so that a
\* Total Load differs from either sheet's own value
C15_Witness ==
    /\ pc = "done"
    /\ Len(result_sheets) = 2
    /\ Len(ws_total.rows) = 2
    /\ \E r \in 1..2 : \A s \in 1..2 : ObservedSlots(s, ws_total.rows[r].date) > 0
    /\ \E r \in 1..2 : \E s \in 1..2 : ObservedSlots(s, ws_total.rows[r].date) = 0
    /\ ws_total.rows[1].max_total_kw # ws_total.rows[1].cells[1].max_kw
    /\ ws_total.total_row.total_total_kwh # ws_total.rows[1].total_total_kwh

\* C16: within a day block the Cumulative Energy cell is blank exactly on the
\* absent slots; on a non-absent slot it is the sum of |W| / 6000 over the
\* day's non-absent slots up to and including it, so it starts anew every
\* day and never decreases; at the day's last non-absent slot it equals the
\* total kWh of the day's summary.
C16_CumulativeRestartsDaily ==
    \A s \in 1..Len(wb) : \A b \in 1..Len(wb[s].blocks) :
       LET blk == wb[s].blocks[b]
           act == ActiveRows(blk)
           n == Len(act)
           energy == [j \in 1..n |-> Rat(Abs(act[j].W.n), act[j].W.d * EnergyDiv)]
       IN  /\ \A i \in 1..Len(blk.rows) :
                 IsNa(blk.rows[i].Cumulative) <=> IsNa(blk.rows[i].W)
           /\ \A j \in 1..n :
                 /\ act[j].Energy = energy[j]
                 /\ act[j].Cumulative = SumOver(energy, 1..j)
           /\ \A j1, j2 \in 1..n :
                 j1 < j2 => ~FLess(act[j2].Cumulative, act[j1].Cumulative)
           /\ n >= 1 => act[n].Cumulative = blk.total_kwh

\* C16 witness: a worksheet of two day blocks, the first with two non-absent
\* slots whose cumulative energy grows from one to the other, the second
\* starting again from the energy of its own first non-absent slot
C16_Witness ==
    /\ pc = "done"
    /\ Len(wb) = 1
    /\ Len(wb[1].blocks) = 2
    /\ LET one == ActiveRows(wb[1].blocks[1])
           two == ActiveRows(wb[1].blocks[2])
       IN  /\ Len(one) = 2
           /\ FLess(one[1].Cumulative, one[2].Cumulative)
           /\ Len(two) >= 1
           /\ two[1].Cumulative = two[1].Energy
           /\ FLess(two[1].Cumulative, one[2].Cumulative)

====
